---- MODULE Spec2Model ----
(***************************************************************************)
(* Model of src/main.ts: the Limitless lifelog sync plugin.                *)
(*                                                                         *)
(*   LimitlessLifelogsPlugin.syncLifelogs   the sync run (day loop)        *)
(*   LimitlessLifelogsPlugin.getLastSyncedDate   the sync cursor           *)
(*   LimitlessLifelogsPlugin.formatLifelogMarkdown   the formatter         *)
(*   LimitlessAPI.getLifelogs / makeRequest   pagination and 429 retry     *)
(*                                                                         *)
(* Strings are sequences of characters (each character a TLA+ string), so  *)
(* that replaceAll and join are computed, not assumed.  Instants are whole *)
(* hours since the epoch day 0 00:00Z; a calendar date is a day number.    *)
(* An async function runs atomically from one await to the next, so every  *)
(* action below goes from one suspension point of a run to the next one.   *)
(***************************************************************************)
EXTENDS Integers, Sequences, FiniteSets, TLC

(***************************************************************************)
(* Bounds of the model.                                                    *)
(***************************************************************************)
\* calendar dates are 0..MaxDay
MaxDay == 1
\* sync triggers (ribbon icon or command) in one behaviour
MaxRuns == 2
\* changes of the environment (upstream data, settings) in one behaviour
MaxChanges == 1
\* content nodes in one lifelog given to the formatter
MaxNodes == 3

(***************************************************************************)
(* Program constants.                                                      *)
(***************************************************************************)
maxRetries == 5
retryDelay == 1000
batchSize == 10

\* The calendar dates of the model; a behaviour's clock stays within
\* 0..horizon, and horizon is MaxDay unless a specification says otherwise.
Days == 0..(MaxDay + 2)

(***************************************************************************)
(* Strings.                                                                *)
(***************************************************************************)
NL == "\n"

\* String.prototype.startsWith
startsWith(s, prefix) ==
    /\ Len(prefix) <= Len(s)
    /\ SubSeq(s, 1, Len(prefix)) = prefix

\* Variant of line 125: String.prototype.replace, which replaces the first
\* match only.
RECURSIVE replace_first(_, _, _)
replace_first(s, pattern, replacement) ==
    IF Len(s) = 0 THEN s
    ELSE IF startsWith(s, pattern)
         THEN replacement \o SubSeq(s, Len(pattern) + 1, Len(s))
         ELSE <<Head(s)>> \o replace_first(Tail(s), pattern, replacement)

\* String.prototype.replaceAll: the matches are found left to right and do
\* not overlap; the text of a replacement is not searched again.
RECURSIVE replaceAll(_, _, _)
replaceAll(s, pattern, replacement) ==
    IF Len(s) = 0 THEN s
    ELSE IF startsWith(s, pattern)
         THEN replacement \o replaceAll(SubSeq(s, Len(pattern) + 1, Len(s)), pattern, replacement)
         ELSE <<Head(s)>> \o replaceAll(Tail(s), pattern, replacement)

\* Variant of line 181: the separator after every block.
RECURSIVE join_each(_, _)
join_each(blocks, separator) ==
    IF Len(blocks) = 0 THEN <<>>
    ELSE blocks[1] \o separator \o join_each(Tail(blocks), separator)

\* Array.prototype.join
RECURSIVE join(_, _)
join(blocks, separator) ==
    IF Len(blocks) = 0 THEN <<>>
    ELSE IF Len(blocks) = 1 THEN blocks[1]
    ELSE blocks[1] \o separator \o join(Tail(blocks), separator)

RECURSIVE concat(_)
concat(seqs) == IF Len(seqs) = 0 THEN <<>> ELSE Head(seqs) \o concat(Tail(seqs))

(***************************************************************************)
(* Formatter.  A lifelog is [title, markdown, contents]; an absent field   *)
(* and an empty one are both falsy (or loop zero times) in the code, so    *)
(* both are the empty sequence here.  A content node is                    *)
(* [type, content, speakerName, startTime], startTime 0 meaning absent.    *)
(***************************************************************************)
\* Date.prototype.toLocaleString('en-US', 2-digit month/day/year, numeric
\* hour, 2-digit minute, hour12) of the two sample instants of the model.
toLocaleString(startTime) ==
    IF startTime = 1 THEN <<"03/01/25, 9:05 AM">> ELSE <<"03/01/25, 2:30 PM">>

\* lines 149-164: the bullet of a blockquote node.
message(node) ==
    LET speaker == IF node.speakerName # <<>> THEN node.speakerName ELSE <<"Speaker">>
        timestamp == IF node.startTime # 0
                     THEN <<"(">> \o toLocaleString(node.startTime) \o <<")">>
                     ELSE <<>>
    IN  <<"- ">> \o speaker \o <<" ">> \o timestamp \o <<": ">> \o node.content

\* Variant of lines 141 and 175: the test of sectionMessages.length left out.
flush_always(st, trailing) ==
    IF st.currentSection # <<>>
    THEN st.content \o << <<"## ">> \o st.currentSection \o <<NL>> >>
                    \o st.sectionMessages
                    \o (IF trailing THEN << <<>> >> ELSE <<>>)
    ELSE st.content

\* lines 141-145 and 175-178: the blocks a section flush pushes.
flush(st, trailing) ==
    IF st.currentSection # <<>> /\ Len(st.sectionMessages) > 0
    THEN st.content \o << <<"## ">> \o st.currentSection \o <<NL>> >>
                    \o st.sectionMessages
                    \o (IF trailing THEN << <<>> >> ELSE <<>>)
    ELSE st.content

\* lines 139-173: one iteration of the loop over lifelog.contents.
node_step(st, node) ==
    IF node.type = "heading2"
    THEN [content |-> flush(st, TRUE),
          currentSection |-> node.content,
          sectionMessages |-> <<>>]
    ELSE IF node.type = "blockquote"
    THEN IF st.currentSection # <<>>
         THEN [st EXCEPT !.sectionMessages = Append(@, message(node))]
         ELSE [st EXCEPT !.content = Append(@, message(node))]
    ELSE IF node.type # "heading1"
    THEN [st EXCEPT !.content = Append(@, node.content)]
    ELSE st

RECURSIVE contents_loop(_, _)
contents_loop(st, nodes) ==
    IF Len(nodes) = 0 THEN st
    ELSE contents_loop(node_step(st, Head(nodes)), Tail(nodes))

\* lines 122-182
formatLifelogMarkdown(lifelog) ==
    IF lifelog.markdown # <<>>
    THEN replaceAll(lifelog.markdown, <<NL, NL>>, <<NL>>)
    ELSE LET titled == IF lifelog.title # <<>>
                       THEN << <<"# ">> \o lifelog.title \o <<NL>> >>
                       ELSE <<>>
             st == contents_loop([content |-> titled,
                                  currentSection |-> <<>>,
                                  sectionMessages |-> <<>>],
                                 lifelog.contents)
         IN  join(flush(st, FALSE), <<NL, NL>>)

\* line 82: logs.map(log => this.formatLifelogMarkdown(log)).join('\n\n')
day_content(logs) ==
    join([i \in 1..Len(logs) |-> formatLifelogMarkdown(logs[i])], <<NL, NL>>)

(***************************************************************************)
(* Dates.  A Date is an instant in whole hours (NaN for an Invalid Date is *)
(* not needed: every date string of the model is a valid one).  The local  *)
(* time zone is "UTC" or a zone five hours west of it that observes        *)
(* daylight saving time; the model's saving period is shortened to a few   *)
(* days (spring forward at DstStart, fall back at DstEnd).                 *)
(***************************************************************************)
Zones == {"UTC", "America/New_York"}
DstStart == 0 * 24 + 7
DstEnd == 2 * 24 + 6

\* The local offset from UTC, in hours, at the instant t.
offset(zone, t) ==
    IF zone = "UTC" THEN 0
    ELSE IF DstStart <= t /\ t < DstEnd THEN 0 - 4 ELSE 0 - 5

\* new Date("YYYY-MM-DD"): a date-only ISO string is midnight UTC.
new_Date(day) == 24 * day

\* date.toISOString().split('T')[0]: the UTC calendar date of an instant.
toISODate(t) == t \div 24

\* ECMAScript UTC(t): the instant of a local wall-clock time.  A repeated
\* local time is the earlier instant (still in saving time), a skipped one
\* is read with the offset before the transition.
utc_of_local(zone, wall) ==
    IF zone = "UTC" THEN wall
    ELSE IF DstStart <= wall + 4 /\ wall + 4 < DstEnd THEN wall + 4 ELSE wall + 5

\* line 88: currentDate.setDate(currentDate.getDate() + 1) moves the LOCAL
\* calendar day forward by one and keeps the local time of day.
setDate_next(zone, t) == utc_of_local(zone, t + offset(zone, t) + 24)

(***************************************************************************)
(* Vault.  A folder path is a sequence of segments; a file is              *)
(* [dir, base, ext] and its basename is [pre, date, suf]: the text before  *)
(* a YYYY-MM-DD group, the calendar date the group spells (-1: no such     *)
(* group) and the text after it.                                           *)
(***************************************************************************)
\* obsidian normalizePath: empty segments (leading, trailing and doubled
\* slashes) are dropped.
normalizePath(path) == SelectSeq(path, LAMBDA seg : seg # "")

\* line 109: file.path.startsWith(folderPath + '/')
in_folder(file, folderPath) == startsWith(file.dir, folderPath)

\* line 110: file.path.endsWith('.md')
is_md(file) == file.ext = "md"

\* Variant of line 112: the pattern without its anchors.
date_regex_unanchored(base) == base.date >= 0

\* line 112: /^\d{4}-\d{2}-\d{2}$/.test(basename)
date_regex(base) == base.pre = "" /\ base.date >= 0 /\ base.suf = ""

\* line 83: `${folderPath}/${dateStr}.md`
filePath(folderPath, day) ==
    [dir |-> folderPath, base |-> [pre |-> "", date |-> day, suf |-> ""], ext |-> "md"]

\* Variant of line 114: the comparison turned round, a.getTime() - b.getTime().
RECURSIVE sort_asc(_)
sort_asc(S) ==
    IF S = {} THEN <<>>
    ELSE LET m == CHOOSE x \in S : \A y \in S : x <= y
         IN  <<m>> \o sort_asc(S \ {m})

\* line 114: sort((a, b) => b.getTime() - a.getTime()) of a bag of instants
RECURSIVE sort_desc(_)
sort_desc(S) ==
    IF S = {} THEN <<>>
    ELSE LET m == CHOOSE x \in S : \A y \in S : y <= x
         IN  <<m>> \o sort_desc(S \ {m})

NoDate == 0 - 1

\* lines 105-120; scanOk = FALSE when vault.getFiles() throws.  The result
\* is an instant, or NoDate for null.
getLastSyncedDate(vaultFiles, folderSetting, scanOk) ==
    LET folderPath == normalizePath(folderSetting)
        names == {f \in vaultFiles :
                     in_folder(f, folderPath) /\ is_md(f) /\ date_regex(f.base)}
        sorted == sort_desc({new_Date(f.base.date) : f \in names})
    IN  IF ~scanOk THEN NoDate
        ELSE IF Len(sorted) > 0 THEN sorted[1] ELSE NoDate

(***************************************************************************)
(* Upstream: the lifelogs the API holds for each calendar date, as the     *)
(* pages it serves them in.                                                *)
(***************************************************************************)
quote(speaker, text, time) ==
    [type |-> "blockquote", content |-> text, speakerName |-> speaker, startTime |-> time]
heading2(text) ==
    [type |-> "heading2", content |-> text, speakerName |-> <<>>, startTime |-> 0]

LogA == [title |-> <<"Standup">>, markdown |-> <<"a", NL, NL, "b">>, contents |-> <<>>]
LogB == [title |-> <<"Call">>, markdown |-> <<>>,
         contents |-> <<heading2(<<"Work">>), quote(<<"Alice">>, <<"Hello">>, 1)>>]
LogC == [title |-> <<>>, markdown |-> <<"c">>, contents |-> <<>>]
LogD == [title |-> <<>>, markdown |-> <<>>, contents |-> <<>>]

\* A node of any other kind, and a heading1 node.
paragraph(text) ==
    [type |-> "paragraph", content |-> text, speakerName |-> <<>>, startTime |-> 0]
heading1(text) ==
    [type |-> "heading1", content |-> text, speakerName |-> <<>>, startTime |-> 0]

\* The lifelogs the formatter is given: with and without a title, with
\* and without markdown (line breaks single, doubled, tripled, four in a
\* row), and every sequence of at most MaxNodes of six content nodes.
Nodes ==
    { heading2(<<"Work">>), heading2(<<"Home">>),
      quote(<<"Alice">>, <<"Hello">>, 1), quote(<<>>, <<"Hi">>, 0),
      paragraph(<<"para">>), heading1(<<"Top">>) }
Titles == { <<>>, <<"Call">> }
Markdowns ==
    { <<>>, <<"a", NL, "b">>, <<"a", NL, NL, "b">>, <<NL, NL, NL, "c">>,
      <<"d", NL, NL, NL, NL>> }
Lifelogs ==
    { [title |-> t, markdown |-> m, contents |-> c] :
         t \in Titles, m \in Markdowns,
         c \in UNION { [1..k -> Nodes] : k \in 0..MaxNodes } }

\* What one date can hold: nothing, one page, three pages.
DataSets ==
    [empty |-> << <<>> >>,
     one   |-> << <<LogA>> >>,
     three |-> << <<LogA, LogB>>, <<LogD>>, <<LogC>> >>]
DataNames == {"empty", "one", "three"}


\* The 200 response of GET /v1/lifelogs?date=..&cursor=..: a page of
\* lifelogs and, unless it is the last page, meta.lifelogs.nextCursor.
\* A page cursor is the number of the page it continues at (0: no cursor).
api_page(data, date, cursor) ==
    LET pages == DataSets[data[date]]
        n == IF cursor = 0 THEN 1 ELSE cursor
    IN  [lifelogs |-> IF n <= Len(pages) THEN pages[n] ELSE <<>>,
         nextCursor |-> IF n < Len(pages) THEN n + 1 ELSE 0]

\* retry-after headers of a 429: absent, an integer of seconds (n), an HTTP
\* date (the instant at), or text that is neither ("text", which the
\* responses of the model do not use).
RetryAfters ==
    { [kind |-> "none", n |-> 0, at |-> 0],
      [kind |-> "int", n |-> 2, at |-> 0],
      [kind |-> "date", n |-> 0, at |-> 24] }
NoHeader == [kind |-> "none", n |-> 0, at |-> 0]

\* What requestUrl can come back with: a 200 with a JSON body, a 200 whose
\* body is absent or not JSON, a 429, another HTTP error.
Responses ==
    { [status |-> 200, json |-> TRUE, retryAfter |-> NoHeader],
      [status |-> 200, json |-> FALSE, retryAfter |-> NoHeader],
      [status |-> 500, json |-> FALSE, retryAfter |-> NoHeader] }
    \cup { [status |-> 429, json |-> FALSE, retryAfter |-> h] : h \in RetryAfters }

NaN == 0 - 999999999

\* Variant of line 300: the exponent one too high.
retry_delay_doubled(retries, retryAfter, clock) ==
    IF retryAfter.kind = "none" THEN retryDelay * 2 ^ (retries + 1)
    ELSE IF retryAfter.kind = "int" THEN retryAfter.n * 1000
    ELSE IF retryAfter.kind = "date" THEN (retryAfter.at - clock) * 3600000
    ELSE NaN

\* lines 300-312: the delay, in ms, before the retry that follows a 429.
retry_delay(retries, retryAfter, clock) ==
    IF retryAfter.kind = "none" THEN retryDelay * 2 ^ retries
    ELSE IF retryAfter.kind = "int" THEN retryAfter.n * 1000
    ELSE IF retryAfter.kind = "date" THEN (retryAfter.at - clock) * 3600000
    ELSE NaN

\* Variants of line 299: every failure is retried; one retry more.
should_retry_any(status, retries) == retries < maxRetries
should_retry_once_more(status, retries) == status = 429 /\ retries <= maxRetries

\* line 299
should_retry(status, retries) == status = 429 /\ retries < maxRetries

\* Variant of line 59: the key is never found missing.
never_missing(s) == FALSE

\* line 59
missing_key(s) == s.apiKey = ""

(***************************************************************************)
(* State.                                                                  *)
(***************************************************************************)
VARIABLES
    settings,       \* plugin.settings: [apiKey, folderPath, startDate]
    apiKey,         \* LimitlessAPI.apiKey
    saving,         \* saveSettings calls awaiting saveData
    zone,           \* the local time zone
    horizon,        \* the last calendar date the clock reaches
    now,            \* the clock, an instant
    folders,        \* the folders of the vault
    files,          \* the files of the vault: file -> content
    upstream,       \* the API's data: date -> name of a data set
    pc,             \* where the sync run is suspended: "idle" (no run),
                    \* "mkdir", "request", "sleep", "write"
    folderPath,     \* syncLifelogs: folderPath
    currentDate,    \* syncLifelogs: currentDate
    endDate,        \* syncLifelogs: endDate
    allLifelogs,    \* getLifelogs: allLifelogs
    cursor,         \* getLifelogs: cursor
    params,         \* getLifelogs: params, [date, cursor]
    retries,        \* makeRequest: retries
    delay,          \* makeRequest: delay of the sleep in progress
    request,        \* the HTTP request in flight
    notices,        \* the Notices the last step of the run showed
    event,          \* what the last step of the run was
    io,             \* the I/O the current invocation of syncLifelogs did
    lastSyncedDate, \* syncLifelogs: lastSyncedDate (NoDate: null)
    lastFetched,    \* history: the latest date a getLifelogs call returned for
    dirty,          \* history: the clock or the environment changed during the run
    fetched,        \* history: the dates a getLifelogs call returned for
    started,        \* history: the settings when the last run started
    stable,         \* history: the last run completed, and neither the clock nor
                    \* the environment has changed since it started
    retryAfter,     \* makeRequest: retryAfter of the 429 being slept on
    runs, changes,  \* how many sync triggers, how many environment changes
    lifelog,        \* formatLifelogMarkdown: its argument
    formatted       \* formatLifelogMarkdown: [done, text], text what it returned

env_vars == <<settings, apiKey, saving, zone, horizon, now, folders, files, upstream>>
run_vars == <<pc, folderPath, currentDate, endDate, allLifelogs, cursor, params,
              retries, delay, request, notices, event, io, lastSyncedDate,
              retryAfter>>
hist_vars == <<lastFetched, dirty, stable, fetched, started>>
fmt_vars == <<lifelog, formatted>>
vars == <<env_vars, run_vars, hist_vars, runs, changes, fmt_vars>>

DEFAULT_SETTINGS == [apiKey |-> "", folderPath |-> <<"Limitless Lifelogs">>, startDate |-> 0]

NoRequest == [date |-> NoDate, cursor |-> 0, key |-> ""]
NoParams == [date |-> NoDate, cursor |-> 0]
\* No run has started.
NoStart == [apiKey |-> "", folderPath |-> <<>>, startDate |-> NoDate]
\* formatLifelogMarkdown has not been called.
Unformatted == [done |-> FALSE, text |-> <<>>]

\* Files of the vault that no sync run wrote.
BigDay == MaxDay + 7
Foreign ==
    { [dir |-> <<"Limitless Lifelogs">>, base |-> [pre |-> "notes", date |-> NoDate, suf |-> ""], ext |-> "md"],
      [dir |-> <<"Limitless Lifelogs">>, base |-> [pre |-> "", date |-> BigDay, suf |-> "-draft"], ext |-> "md"],
      [dir |-> <<"Limitless Lifelogs">>, base |-> [pre |-> "", date |-> BigDay, suf |-> ""], ext |-> "txt"],
      [dir |-> <<"Archive">>, base |-> [pre |-> "", date |-> BigDay, suf |-> ""], ext |-> "md"] }

\* Upstream data: one page of records on every date; three pages on day 0,
\* nothing on day 1 and one page on the other dates.
OnePageEachDay == [d \in Days |-> "one"]
MixedDays == [d \in Days |-> IF d = 0 THEN "three" ELSE IF d = 1 THEN "empty" ELSE "one"]

\* After onload (lines 21-23, 47-49): either a first installation, with the
\* default settings and nothing in the vault, or a configured plugin in a
\* vault whose files are one of vaults; the API holds data.
InitWith(h, vaults, data) ==
    /\ \/ /\ settings = DEFAULT_SETTINGS
          /\ files = [f \in {} |-> <<>>]
          /\ folders = {}
       \/ /\ settings = [DEFAULT_SETTINGS EXCEPT !.apiKey = "key1"]
          /\ \E present \in vaults :
                /\ files = [f \in present |-> <<>>]
                /\ folders = {f.dir : f \in present}
    /\ apiKey = settings.apiKey
    /\ saving = 0
    /\ zone \in Zones
    /\ horizon = h
    /\ now = 12
    /\ upstream = data
    /\ pc = "idle"
    /\ folderPath = <<>>
    /\ currentDate = NoDate
    /\ endDate = NoDate
    /\ allLifelogs = <<>>
    /\ cursor = 0
    /\ params = NoParams
    /\ retries = 0
    /\ delay = 0
    /\ request = NoRequest
    /\ notices = <<>>
    /\ event = "loaded"
    /\ io = {}
    /\ lastSyncedDate = NoDate
    /\ retryAfter = NoHeader
    /\ lastFetched = NoDate
    /\ fetched = {}
    /\ started = NoStart
    /\ dirty = FALSE
    /\ stable = FALSE
    /\ runs = 0
    /\ changes = 0

\* lines 21-23 and 47-49: the plugin has loaded.
Init ==
    /\ InitWith(MaxDay, {Foreign}, OnePageEachDay)
    /\ lifelog = LogD
    /\ formatted = Unformatted

(***************************************************************************)
(* The sync run.                                                           *)
(***************************************************************************)
\* Variant of lines 261-263: the cursor is never set.
without_cursor(p, c) == p

\* lines 261-263: if (cursor) params.set('cursor', cursor)
with_cursor(p, c) == IF c # 0 THEN [p EXCEPT !.cursor = c] ELSE p

\* line 81: logs && logs.length > 0
has_logs(logs) == Len(logs) > 0

\* line 84: vault.adapter.write(filePath, content) replaces the file.
adapter_write(fs, path, content) ==
    [f \in DOMAIN fs \cup {path} |-> IF f = path THEN content ELSE fs[f]]

\* Variants of lines 316 and 282: the retry goes back to the first page;
\* the retry is not counted.
retry_from_first_page(p, n) ==
    /\ pc' = "request"
    /\ params' = [p EXCEPT !.cursor = 0]
    /\ retries' = n + 1
    /\ delay' = 0
    /\ retryAfter' = NoHeader
    /\ request' = [date |-> p.date, cursor |-> 0, key |-> apiKey]
retry_uncounted(p, n) ==
    /\ pc' = "request"
    /\ params' = p
    /\ retries' = n
    /\ delay' = 0
    /\ retryAfter' = NoHeader
    /\ request' = [date |-> p.date, cursor |-> p.cursor, key |-> apiKey]

\* lines 316 and 282-291: retries++, and the loop issues the request again.
retry_request(p, n) ==
    /\ pc' = "request"
    /\ params' = p
    /\ retries' = n + 1
    /\ delay' = 0
    /\ retryAfter' = NoHeader
    /\ request' = [date |-> p.date, cursor |-> p.cursor, key |-> apiKey]

\* lines 284-291: makeRequest issues the request; the X-API-Key header is
\* the client's key at that moment.
start_request(p, n) ==
    /\ pc' = "request"
    /\ params' = p
    /\ retries' = n
    /\ delay' = 0
    /\ retryAfter' = NoHeader
    /\ request' = [date |-> p.date, cursor |-> p.cursor, key |-> apiKey]

\* The run is over (line 91, or the catch of line 92): its locals are gone.
\* lastSyncedDate keeps the result of the last scan, for inspection.
end_run ==
    /\ pc' = "idle"
    /\ folderPath' = <<>>
    /\ currentDate' = NoDate
    /\ endDate' = NoDate
    /\ allLifelogs' = <<>>
    /\ cursor' = 0
    /\ params' = NoParams
    /\ retries' = 0
    /\ delay' = 0
    /\ request' = NoRequest
    /\ retryAfter' = NoHeader
    /\ dirty' = FALSE

\* lines 77-79 and 91: the loop test for currentDate = cd, then getLifelogs
\* (lines 248-266) up to its first request, or the end of the run.
loop_from(cd, end, fp, shown, did, changed) ==
    IF cd <= end
    THEN /\ currentDate' = cd
         /\ endDate' = end
         /\ folderPath' = fp
         /\ allLifelogs' = <<>>
         /\ cursor' = 0
         /\ start_request([date |-> toISODate(cd), cursor |-> 0], 0)
         /\ notices' = shown
         /\ io' = did \cup {"requestUrl"}
         /\ dirty' = changed
         /\ UNCHANGED stable
    ELSE /\ end_run
         /\ notices' = Append(shown, "Limitless lifelog sync complete!")
         /\ io' = did
         /\ stable' = ~changed

\* lines 70-76: the cursor, the date range, then the loop.
scan_and_loop(fp, scanOk, did, changed) ==
    LET last == getLastSyncedDate(DOMAIN files, settings.folderPath, scanOk)
        startDate == IF last # NoDate THEN last ELSE new_Date(settings.startDate)
    IN  /\ lastSyncedDate' = last
        /\ loop_from(startDate, now, fp, <<"Starting Limitless lifelog sync...">>,
                     did \cup (IF scanOk THEN {"getFiles"} ELSE {"getFiles", "getFiles threw"}),
                     changed)

\* lines 58-67: a sync trigger (ribbon icon or command), up to the first
\* await that suspends the run.
syncLifelogs ==
    /\ UNCHANGED fmt_vars
    /\ pc = "idle"
    /\ runs < MaxRuns
    /\ runs' = runs + 1
    /\ UNCHANGED <<env_vars, changes, lastFetched, fetched>>
    /\ IF missing_key(settings)
       THEN /\ notices' = <<"Please set your Limitless API key in settings">>
            /\ event' = "no_key"
            /\ io' = {}
            /\ UNCHANGED <<pc, folderPath, currentDate, endDate, allLifelogs, cursor,
                           params, retries, delay, request, lastSyncedDate, retryAfter,
                           dirty, stable, started>>
       ELSE LET fp == normalizePath(settings.folderPath)
            IN  /\ started' = settings
                /\ IF fp \in folders
                   THEN /\ event' = "started"
                        /\ \E scanOk \in BOOLEAN :
                              scan_and_loop(fp, scanOk, {"getFolderByPath"}, FALSE)
                   ELSE /\ event' = "mkdir"
                        /\ pc' = "mkdir"
                        /\ folderPath' = fp
                        /\ notices' = <<>>
                        /\ io' = {"getFolderByPath", "createFolder"}
                        /\ dirty' = FALSE
                        /\ UNCHANGED <<currentDate, endDate, allLifelogs, cursor, params,
                                       retries, delay, request, lastSyncedDate, retryAfter,
                                       stable>>

\* lines 98-103, then 70-79: vault.createFolder completes.
folder_created ==
    /\ UNCHANGED fmt_vars
    /\ pc = "mkdir"
    /\ folders' = folders \cup {folderPath}
    /\ event' = "started"
    /\ \E scanOk \in BOOLEAN : scan_and_loop(folderPath, scanOk, io, dirty)
    /\ UNCHANGED <<settings, apiKey, saving, zone, horizon, now, files, upstream, runs,
                   changes, lastFetched, fetched, started>>

\* The catch of lines 92-95.
abort ==
    /\ end_run
    /\ notices' = <<"Error syncing Limitless lifelogs. Check console for details.">>
    /\ stable' = FALSE
    /\ UNCHANGED <<io, lastSyncedDate, lastFetched, fetched, started>>

\* What came back, by status and body alone.
response_kind(resp) ==
    IF resp.status = 429 THEN "429"
    ELSE IF resp.status # 200 THEN "http_error"
    ELSE IF resp.json THEN "200" ELSE "no_json"

\* lines 266-277, 293-320 and 79-89: requestUrl settles with resp.
respond(resp) ==
    /\ UNCHANGED fmt_vars
    /\ pc = "request"
    /\ event' = response_kind(resp)
    /\ UNCHANGED <<env_vars, runs, changes>>
    /\ IF resp.status = 200 /\ resp.json
       THEN LET data == api_page(upstream, request.date, request.cursor)
                all == allLifelogs \o data.lifelogs
                day == toISODate(currentDate)
            IN  IF data.nextCursor # 0
                THEN /\ allLifelogs' = all
                     /\ cursor' = data.nextCursor
                     /\ start_request(with_cursor(params, data.nextCursor), 0)
                     /\ notices' = <<>>
                     /\ io' = io \cup {"requestUrl"}
                     /\ UNCHANGED <<folderPath, currentDate, endDate, lastSyncedDate,
                                    hist_vars>>
                ELSE IF has_logs(all)
                THEN /\ pc' = "write"
                     /\ allLifelogs' = all
                     /\ cursor' = 0
                     /\ request' = NoRequest
                     /\ notices' = <<>>
                     /\ io' = io \cup {"write"}
                     /\ lastFetched' = IF day > lastFetched THEN day ELSE lastFetched
                     /\ fetched' = fetched \cup {day}
                     /\ UNCHANGED started
                     /\ UNCHANGED <<folderPath, currentDate, endDate, params, retries,
                                    delay, lastSyncedDate, retryAfter, dirty, stable>>
                ELSE /\ loop_from(setDate_next(zone, currentDate), endDate, folderPath,
                                  <<>>, io, dirty)
                     /\ lastFetched' = IF day > lastFetched THEN day ELSE lastFetched
                     /\ fetched' = fetched \cup {day}
                     /\ UNCHANGED <<lastSyncedDate, started>>
       ELSE IF should_retry(resp.status, retries)
       THEN /\ pc' = "sleep"
            /\ delay' = retry_delay(retries, resp.retryAfter, now)
            /\ retryAfter' = resp.retryAfter
            /\ request' = NoRequest
            /\ notices' = <<"Rate limit exceeded. Retrying...">>
            /\ UNCHANGED <<folderPath, currentDate, endDate, allLifelogs, cursor, params,
                           retries, io, lastSyncedDate, hist_vars>>
       ELSE abort

requestUrl_settles == \E resp \in Responses : respond(resp)

\* lines 315-316, then 282-291: the delay has elapsed, the request is retried.
sleep_elapsed ==
    /\ UNCHANGED fmt_vars
    /\ pc = "sleep"
    /\ retry_request(params, retries)
    /\ event' = "retry"
    /\ notices' = <<>>
    /\ io' = io \cup {"requestUrl"}
    /\ UNCHANGED <<env_vars, runs, changes, folderPath, currentDate, endDate,
                   allLifelogs, cursor, lastSyncedDate, hist_vars>>

\* lines 84-89, then 77-79: adapter.write completes.
write_done ==
    /\ UNCHANGED fmt_vars
    /\ pc = "write"
    /\ files' = adapter_write(files, filePath(folderPath, toISODate(currentDate)),
                              day_content(allLifelogs))
    /\ event' = "written"
    /\ loop_from(setDate_next(zone, currentDate), endDate, folderPath,
                 <<"Synced entries">>, io, dirty)
    /\ UNCHANGED <<settings, apiKey, saving, zone, horizon, now, folders, upstream, runs,
                   changes, lastSyncedDate, lastFetched, fetched, started>>

(***************************************************************************)
(* The environment: the clock, the upstream data, the settings tab.        *)
(***************************************************************************)
\* What a change of the clock or of the environment does to the history.
disturbed ==
    /\ dirty' = (pc # "idle")
    /\ stable' = FALSE
    /\ UNCHANGED <<lastFetched, fetched, started>>

tick ==
    /\ UNCHANGED fmt_vars
    /\ now + 24 < 24 * (horizon + 1)
    /\ now' = now + 24
    /\ disturbed
    /\ UNCHANGED <<settings, apiKey, saving, zone, horizon, folders, files, upstream,
                   run_vars, runs, changes>>

upstream_changes ==
    /\ UNCHANGED fmt_vars
    /\ changes < MaxChanges
    /\ changes' = changes + 1
    /\ \E d \in 0..horizon :
          \E ds \in DataNames \ {upstream[d]} :
             upstream' = [upstream EXCEPT ![d] = ds]
    /\ disturbed
    /\ UNCHANGED <<settings, apiKey, saving, zone, horizon, now, folders, files,
                   run_vars, runs>>

ApiKeys == {"", "key1", "key2"}
FolderPaths == {<<"Limitless Lifelogs">>, <<"Journal", "">>}
StartDates == {0, 1}

\* lines 203-205, 214-216, 225-227: onChange of a settings field, up to the
\* await of saveData (line 52).
onChange ==
    /\ UNCHANGED fmt_vars
    /\ changes < MaxChanges
    /\ changes' = changes + 1
    /\ saving' = saving + 1
    /\ \/ \E v \in ApiKeys \ {settings.apiKey} : settings' = [settings EXCEPT !.apiKey = v]
       \/ \E v \in FolderPaths \ {settings.folderPath} :
             settings' = [settings EXCEPT !.folderPath = v]
       \/ \E v \in StartDates \ {settings.startDate} :
             settings' = [settings EXCEPT !.startDate = v]
    /\ disturbed
    /\ UNCHANGED <<apiKey, zone, horizon, now, folders, files, upstream, run_vars, runs>>

\* lines 53-55: saveData has completed.
saveSettings ==
    /\ UNCHANGED fmt_vars
    /\ saving > 0
    /\ saving' = saving - 1
    /\ apiKey' = settings.apiKey
    /\ disturbed
    /\ UNCHANGED <<settings, zone, horizon, now, folders, files, upstream, run_vars,
                   runs, changes>>

(***************************************************************************)
(* The formatter on its own.                                               *)
(***************************************************************************)
\* lines 122-182: formatLifelogMarkdown is called with lifelog.
format ==
    /\ ~formatted.done
    /\ formatted' = [done |-> TRUE, text |-> formatLifelogMarkdown(lifelog)]
    /\ UNCHANGED <<env_vars, run_vars, hist_vars, runs, changes, lifelog>>

\* The run and the clock.
NextRun ==
    \/ syncLifelogs
    \/ folder_created
    \/ requestUrl_settles
    \/ sleep_elapsed
    \/ write_done
    \/ tick

Next ==
    \/ NextRun
    \/ upstream_changes
    \/ onChange
    \/ saveSettings

Spec == Init /\ [][Next]_vars

\* The same program over a longer stretch of days, the upstream data and
\* the settings left alone.
InitLong ==
    /\ InitWith(MaxDay + 2, {{}, Foreign}, OnePageEachDay)
    /\ lifelog = LogD
    /\ formatted = Unformatted
SpecLong == InitLong /\ [][NextRun]_vars

\* The formatter applied to each lifelog of Lifelogs.
InitFormat ==
    /\ InitWith(MaxDay, {Foreign}, OnePageEachDay)
    /\ settings = DEFAULT_SETTINGS
    /\ zone = "UTC"
    /\ lifelog \in Lifelogs
    /\ formatted = Unformatted
SpecFormat == InitFormat /\ [][format]_vars

\* The run when every request is answered, every delay elapses and every
\* folder creation and file write completes.
InitFair ==
    /\ InitWith(MaxDay + 2, {{}, Foreign}, MixedDays)
    /\ lifelog = LogD
    /\ formatted = Unformatted
SpecFair ==
    /\ InitFair
    /\ [][NextRun]_vars
    /\ WF_vars(folder_created)
    /\ WF_vars(requestUrl_settles)
    /\ WF_vars(sleep_elapsed)
    /\ WF_vars(write_done)

(***************************************************************************)
(* Properties.                                                             *)
(***************************************************************************)
Aborted == <<"Error syncing Limitless lifelogs. Check console for details.">>
DefaultFolder == normalizePath(DEFAULT_SETTINGS.folderPath)

\* The calendar dates that have a file named exactly YYYY-MM-DD.md in folder.
date_files(fs, folder) == {d \in 0..BigDay : filePath(folder, d) \in DOMAIN fs}

\* A step of the run, not of the clock or the environment.
RunStep == UNCHANGED <<settings, apiKey, saving, now, upstream>>

\* The request in flight settles with a response of one of the kinds.
Responds(kinds) == RunStep /\ pc = "request" /\ event' \in kinds

\* The step of a run in which getLastSyncedDate is called (line 70).
ScanStep == event' = "started" /\ (runs' # runs \/ pc = "mkdir")
ScanThrew == "getFiles threw" \in io'

\* C1: a request that fails with a non-429 HTTP error, or whose body is
\* absent or not JSON, is not retried and aborts the run: the run is over,
\* no request is in flight, the failure notice is shown and no file
\* changes; files change only in the write step of a run in progress, so
\* nothing is written for the failing day or a later one, and what earlier
\* days wrote stays as it is.
FetchErrorAborts ==
    [][ /\ Responds({"no_json", "http_error"}) =>
              /\ pc' = "idle"
              /\ request' = NoRequest
              /\ notices' = Aborted
              /\ files' = files
        /\ (files' # files) => (pc = "write" /\ event' = "written")
        /\ (pc = "idle" /\ pc' # "idle") => runs' = runs + 1
      ]_vars

\* A run has written day 0's file and was then aborted by a fetch error.
FetchErrorAbortsWitness ==
    /\ pc = "idle"
    /\ event \in {"no_json", "http_error"}
    /\ notices = Aborted
    /\ runs = 1
    /\ lastFetched = 0
    /\ filePath(DefaultFolder, 0) \in DOMAIN files

\* C2: only a 429 is followed by a retry, and only while fewer than 5
\* retries were made, so a logical request makes at most 6 attempts; the
\* retry repeats the same request; the counter of a new logical request
\* (another page, another day, another run) is 0; a 429 on the 6th
\* attempt aborts the run.
RetryOnly429 ==
    [][ /\ (pc = "request" /\ pc' = "sleep") => (event' = "429" /\ retries < 5)
        /\ (Responds({"429"}) /\ retries < 5) => pc' = "sleep"
        /\ (Responds({"429"}) /\ retries >= 5) =>
              (pc' = "idle" /\ notices' = Aborted /\ request' = NoRequest)
        /\ (pc = "sleep" /\ pc' # "sleep") =>
              /\ pc' = "request"
              /\ retries' = retries + 1
              /\ params' = params
        /\ (pc' = "request" /\ (pc \notin {"request", "sleep"} \/ params' # params)) =>
              retries' = 0
        /\ retries' + 1 <= 6
      ]_vars

\* The 6th attempt of a request has come back with a 429 and ended the run.
RetryOnly429Witness ==
    /\ pc = "idle"
    /\ event = "429"
    /\ notices = Aborted

\* C3: a sync trigger with an empty API key setting does no I/O at all (no
\* folder lookup or creation, no scan, no request, no write); it shows the
\* notice and the invocation is over.
NoKeyNoIO ==
    [][ (runs' = runs + 1 /\ settings.apiKey = "") =>
              /\ io' = {}
              /\ pc' = "idle"
              /\ request' = NoRequest
              /\ files' = files
              /\ folders' = folders
              /\ lastSyncedDate' = lastSyncedDate
              /\ notices' = <<"Please set your Limitless API key in settings">>
      ]_vars

\* A trigger without a key, in a vault that has no folder yet.
NoKeyNoIOWitness ==
    /\ event = "no_key"
    /\ runs = 1
    /\ io = {}
    /\ folders = {}
    /\ notices = <<"Please set your Limitless API key in settings">>

\* C4: the first request of a day carries no cursor and starts from an
\* empty accumulator; a page that has a continuation token is followed by a
\* request for the same day with exactly that token; the first page
\* without one ends the day's fetch; each page is appended to the
\* accumulator, so that what the fetch returns is the concatenation of the
\* day's pages in order.
PaginationChains ==
    [][ LET data == api_page(upstream, request.date, request.cursor)
        IN  /\ (pc' = "request" /\ currentDate' # currentDate) =>
                  (request'.cursor = 0 /\ allLifelogs' = <<>>)
            /\ (Responds({"200"}) /\ data.nextCursor # 0) =>
                  /\ pc' = "request"
                  /\ currentDate' = currentDate
                  /\ request'.date = request.date
                  /\ request'.cursor = data.nextCursor
                  /\ allLifelogs' = allLifelogs \o data.lifelogs
            /\ (Responds({"200"}) /\ data.nextCursor = 0) =>
                  \/ pc' = "write" /\ allLifelogs' = allLifelogs \o data.lifelogs
                  \/ data.lifelogs = <<>> /\ allLifelogs = <<>> /\ currentDate' # currentDate
            /\ (pc' = "write" /\ ~dirty') =>
                  allLifelogs' = concat(DataSets[upstream'[toISODate(currentDate')]])
      ]_vars

\* A day of three pages has been fetched.
PaginationChainsWitness ==
    /\ pc = "write"
    /\ ~dirty
    /\ upstream[toISODate(currentDate)] = "three"
    /\ allLifelogs = <<LogA, LogB, LogD, LogC>>

\* C5: the scan returns the latest date among the files of the configured
\* folder that are named exactly YYYY-MM-DD.md, whatever else is in the
\* vault; it returns null when there is none or when the scan throws; and
\* after a null the run goes on from the configured start date.
LastSyncedDateIsMax ==
    [][ ScanStep =>
          LET dates == date_files(files, normalizePath(settings.folderPath))
          IN  /\ (ScanThrew \/ dates = {}) => lastSyncedDate' = NoDate
              /\ (~ScanThrew /\ dates # {}) =>
                    \E d \in dates : /\ lastSyncedDate' = new_Date(d)
                                     /\ \A e \in dates : e <= d
              /\ notices'[1] = "Starting Limitless lifelog sync..."
              /\ (lastSyncedDate' = NoDate /\ pc' = "request") =>
                    request'.date = settings.startDate
      ]_vars

\* A second run has found day 1 as the latest of two date files, in a
\* folder that also holds files of other names.
LastSyncedDateIsMaxWitness ==
    /\ runs = 2
    /\ event = "started"
    /\ lastSyncedDate = new_Date(1)
    /\ Foreign \subseteq DOMAIN files
    /\ date_files(files, DefaultFolder) = {0, 1}

\* C6 as stated: the cursor a run computes is the latest date whose fetch a
\* previous run completed (in the default folder, the scan not failing).
CursorIsLastFetched ==
    [][ (ScanStep /\ ~ScanThrew /\ settings.folderPath = DEFAULT_SETTINGS.folderPath) =>
          lastSyncedDate' = (IF lastFetched = NoDate THEN NoDate ELSE new_Date(lastFetched))
      ]_vars

\* C6: the cursor a run computes is the latest date that has a file in the
\* configured folder, that is the latest date for which a run fetched at
\* least one record and wrote it there; it is never later than the latest
\* date whose fetch was completed, and it is earlier when the dates fetched
\* after it had no records.
CursorIsLastWritten ==
    [][ (ScanStep /\ ~ScanThrew) =>
          LET dates == date_files(files, normalizePath(settings.folderPath))
          IN  IF lastSyncedDate' = NoDate
              THEN dates = {}
              ELSE /\ lastSyncedDate' = new_Date(toISODate(lastSyncedDate'))
                   /\ toISODate(lastSyncedDate') \in dates
                   /\ \A e \in dates : e <= toISODate(lastSyncedDate')
                   /\ toISODate(lastSyncedDate') <= lastFetched
      ]_vars

\* A run resumes from day 0 although day 1, which had no records, was
\* fetched before.
CursorIsLastWrittenWitness ==
    /\ runs = 2
    /\ event = "started"
    /\ lastSyncedDate = new_Date(0)
    /\ lastFetched = 1
    /\ date_files(files, DefaultFolder) = {0}

\* C7: a first run over two days (start date day 0, run on day 1) that
\* each hold one page of records, completed while nothing else changed,
\* leaves exactly the two files of day 0 and day 1, each with its day's
\* formatted records.
TwoDaysTwoFiles ==
    [][ ( /\ ~stable /\ stable'
          /\ runs' = 1 /\ changes' = 0
          /\ lastSyncedDate' = NoDate
          /\ settings.startDate = 0
          /\ toISODate(now) = 1 ) =>
              /\ date_files(files', DefaultFolder) = {0, 1}
              /\ \A d \in {0, 1} :
                    files'[filePath(DefaultFolder, d)] = day_content(<<LogA>>)
      ]_vars

\* C8: when the run leaves a date that already had a file, after its fetch
\* completed, the file holds exactly the records this run fetched for the
\* date, formatted and joined by a blank line.
ResyncOverwrites ==
    [][ ( /\ RunStep
          /\ pc \in {"request", "write"}
          /\ event' \in {"200", "written"}
          /\ currentDate' # currentDate ) =>
          LET path == filePath(folderPath, toISODate(currentDate))
              got == IF pc = "write" THEN allLifelogs
                     ELSE allLifelogs \o
                          api_page(upstream, request.date, request.cursor).lifelogs
          IN  path \in DOMAIN files =>
                 (path \in DOMAIN files' /\ files'[path] = day_content(got))
      ]_vars

\* C9: after a run has completed, and while neither the clock nor the
\* upstream data nor the settings change, another run changes no file.
Idempotent == [][stable => files' = files]_vars

\* C10: while a retry waits, its delay is n x 1000 ms when the 429 carried
\* the integer n as retry-after, and, when it carried no retry-after,
\* 1000, 2000, 4000, 8000, 16000 ms for the 1st to the 5th retry.
RetryDelays ==
    pc = "sleep" =>
        /\ retryAfter.kind = "int" => delay = retryAfter.n * 1000
        /\ retryAfter.kind = "none" =>
              /\ retries + 1 \in 1..5
              /\ delay = <<1000, 2000, 4000, 8000, 16000>>[retries + 1]

\* The 5th retry of a request waits 16 s.
RetryDelaysWitness ==
    /\ pc = "sleep"
    /\ retryAfter.kind = "none"
    /\ retries = 4
    /\ delay = 16000

\* C11: while a retry waits, its delay is never negative, also when the
\* 429 carried a retry-after date that lies in the past.
RetryDelayNonNegative == pc = "sleep" => delay >= 0

\* The line breaks that start s.
RECURSIVE leading_breaks(_)
leading_breaks(s) ==
    IF Len(s) > 0 /\ Head(s) = NL THEN 1 + leading_breaks(Tail(s)) ELSE 0

\* s with every run of k line breaks made a run of k minus (k div 2): each
\* pair of the run, taken from the left, has become one line break.
RECURSIVE collapsed(_)
collapsed(s) ==
    IF Len(s) = 0 THEN s
    ELSE IF Head(s) # NL THEN <<Head(s)>> \o collapsed(Tail(s))
    ELSE LET k == leading_breaks(s)
         IN  [i \in 1..(k - (k \div 2)) |-> NL] \o collapsed(SubSeq(s, k + 1, Len(s)))

\* C12: for a lifelog with a non-empty markdown the formatter returns the
\* markdown with each "\n\n" replaced by "\n" and nothing else changed,
\* whatever its title and contents are.
MarkdownCollapsed ==
    (formatted.done /\ lifelog.markdown # <<>>) =>
        formatted.text = collapsed(lifelog.markdown)

\* A lifelog with a title, content nodes and three line breaks in a row in
\* its markdown has been formatted.
MarkdownCollapsedWitness ==
    /\ formatted.done
    /\ lifelog.markdown = <<NL, NL, NL, "c">>
    /\ lifelog.title # <<>>
    /\ Len(lifelog.contents) = MaxNodes
    /\ formatted.text = <<NL, NL, "c">>

\* A blockquote comes before the next heading2 of nodes.
RECURSIVE quote_before_heading(_)
quote_before_heading(nodes) ==
    IF Len(nodes) = 0 \/ Head(nodes).type = "heading2" THEN FALSE
    ELSE Head(nodes).type = "blockquote" \/ quote_before_heading(Tail(nodes))

\* The titles of the heading2 nodes that have a blockquote of their own.
RECURSIVE sections_with_quotes(_)
sections_with_quotes(nodes) ==
    IF Len(nodes) = 0 THEN <<>>
    ELSE (IF Head(nodes).type = "heading2" /\ quote_before_heading(Tail(nodes))
          THEN <<Head(nodes).content>> ELSE <<>>)
         \o sections_with_quotes(Tail(nodes))

\* The titles of the level-2 headings of a formatted text, in order.
headings_of(out) ==
    SelectSeq([i \in 1..Len(out) |-> IF i > 1 /\ out[i - 1] = "## "
                                     THEN <<out[i]>> ELSE <<>>],
              LAMBDA x : x # <<>>)

\* C13: in contents-based rendering the level-2 headings of the output are
\* exactly those of the heading2 nodes that have a blockquote before the
\* next heading2 node or the end, in order, and each is followed, after a
\* blank line, by a bullet line.
NoEmptySection ==
    (formatted.done /\ lifelog.markdown = <<>>) =>
        LET out == formatted.text
        IN  /\ headings_of(out) = sections_with_quotes(lifelog.contents)
            /\ \A i \in 1..Len(out) :
                  out[i] = "## " =>
                     /\ i + 5 <= Len(out)
                     /\ out[i + 2] = NL /\ out[i + 3] = NL /\ out[i + 4] = NL
                     /\ out[i + 5] = "- "

\* The contents heading2 Work, a blockquote, heading2 Home have been
\* formatted: one section, Work, with its bullet and the blank block of
\* its flush, and no Home.
NoEmptySectionWitness ==
    /\ formatted.done
    /\ lifelog.markdown = <<>>
    /\ lifelog.title = <<>>
    /\ lifelog.contents = << heading2(<<"Work">>), quote(<<"Alice">>, <<"Hello">>, 1),
                             heading2(<<"Home">>) >>
    /\ formatted.text = <<"## ", "Work", NL, NL, NL, "- ", "Alice", " ", "(",
                          "03/01/25, 9:05 AM", ")", ": ", "Hello", NL, NL>>

\* C14 as stated: a lifelog with neither markdown nor contents is formatted
\* to the empty string.
EmptyLifelogEmptyString ==
    (formatted.done /\ lifelog.markdown = <<>> /\ lifelog.contents = <<>>) =>
        formatted.text = <<>>

\* C14: a lifelog with neither markdown nor contents is formatted to the
\* empty string when it has no title, and to its title as a level-1
\* heading, "# title\n", when it has one.
EmptyLifelogTitleOnly ==
    (formatted.done /\ lifelog.markdown = <<>> /\ lifelog.contents = <<>>) =>
        formatted.text = (IF lifelog.title = <<>> THEN <<>>
                          ELSE <<"# ">> \o lifelog.title \o <<NL>>)

\* A lifelog that has a title and nothing else has been formatted.
EmptyLifelogTitleOnlyWitness ==
    /\ formatted.done
    /\ lifelog = [title |-> <<"Call">>, markdown |-> <<>>, contents |-> <<>>]
    /\ formatted.text = <<"# ", "Call", NL>>

\* The node i of nodes produces a block of output.
produces(nodes, i) ==
    \/ nodes[i].type \notin {"heading1", "heading2"}
    \/ nodes[i].type = "heading2" /\ quote_before_heading(SubSeq(nodes, i + 1, Len(nodes)))

\* Where the text of a node first appears in a formatted text (0: nowhere).
position(out, text) ==
    IF \E k \in 1..Len(out) : out[k] = text[1]
    THEN CHOOSE k \in 1..Len(out) : out[k] = text[1] /\ \A m \in 1..(k - 1) : out[m] # text[1]
    ELSE 0

\* C20: in contents-based rendering of nodes that differ from each other,
\* of two nodes that produce output the block of the earlier node comes
\* first in the formatted text.
DocumentOrder ==
    (formatted.done /\ lifelog.markdown = <<>>) =>
        LET nodes == lifelog.contents
            out == formatted.text
        IN  \A i, j \in 1..Len(nodes) :
               ( /\ i < j
                 /\ \A a, b \in 1..Len(nodes) : a # b => nodes[a] # nodes[b]
                 /\ produces(nodes, i) /\ produces(nodes, j) ) =>
                    /\ position(out, nodes[i].content) > 0
                    /\ position(out, nodes[i].content) < position(out, nodes[j].content)

\* C15: a 429 and the retry that follows it leave the day's fetch as it
\* was: the accumulator, the continuation token, the parameters and the
\* date do not change, and the retried request has the cursor and the date
\* of the request that was rate-limited.
RetryKeepsFetchState ==
    [][ /\ pc = "request" =>
              (request.date = params.date /\ request.cursor = params.cursor)
        /\ (Responds({"429"}) /\ pc' = "sleep") =>
              UNCHANGED <<allLifelogs, cursor, params, currentDate>>
        /\ (pc = "sleep" /\ pc' = "request") =>
              /\ UNCHANGED <<allLifelogs, cursor, params, currentDate>>
              /\ request'.date = params.date
              /\ request'.cursor = params.cursor
      ]_vars

\* The request for the second page of a day is being retried, the first
\* page in the accumulator.
RetryKeepsFetchStateWitness ==
    /\ pc = "request"
    /\ event = "retry"
    /\ retries = 1
    /\ request.cursor = 2
    /\ cursor = 2
    /\ allLifelogs = <<LogA, LogB>>

\* The run completes: its last fetch, or its last write, ends the day loop.
Completes == RunStep /\ pc \in {"request", "write"} /\ pc' = "idle"
                     /\ event' \in {"200", "written"}

\* C16: no request is in flight while the run sleeps, writes or is over;
\* the first request for a date follows the completed fetch, and write, of
\* the date before it, and that date is the calendar date before it; the
\* last date the run processes is the calendar date of its end date.
DatesAscendingOnce ==
    [][ /\ pc' \in {"idle", "mkdir", "sleep", "write"} => request' = NoRequest
        /\ (RunStep /\ pc' = "request" /\ currentDate # NoDate
                    /\ currentDate' # currentDate) =>
              /\ pc \in {"request", "write"}
              /\ event' \in {"200", "written"}
              /\ toISODate(currentDate') = toISODate(currentDate) + 1
        /\ Completes => toISODate(currentDate) = toISODate(endDate)
      ]_vars

\* C17: every request of a run carries the API key the settings held when
\* the run started, and the folder the run scans for its cursor is the
\* folder of those settings, which is also the one it creates and writes.
SettingsReadAtStart ==
    [][ /\ pc' = "request" => request'.key = started'.apiKey
        /\ pc' # "idle" => folderPath' = normalizePath(started'.folderPath)
        /\ (ScanStep /\ ~ScanThrew) =>
              LET dates == date_files(files, normalizePath(started'.folderPath))
              IN  IF dates = {} THEN lastSyncedDate' = NoDate
                  ELSE toISODate(lastSyncedDate') \in dates
      ]_vars

NoGaps ==
    [][ /\ (ScanStep /\ pc' = "request") =>
              \A d \in settings.startDate..(request'.date - 1) : d \in fetched
        /\ Completes =>
              \A d \in settings.startDate..toISODate(endDate) : d \in fetched'
      ]_vars

====
